---------------------------- MODULE Spec2Model ----------------------------
(***************************************************************************)
(* Grafana to Threema alert forwarder (src/main.go).                       *)
(*                                                                         *)
(* forwarder() loads the identity, splits the recipient flags, trusts the  *)
(* recipients, starts the publisher goroutine and serves the webhook.      *)
(* Every webhook request runs the handler closure in a goroutine of its    *)
(* own; the handlers hand their alerts to the single publisher goroutine   *)
(* over the channel made by make(chan *alert), which has no buffer.        *)
(*                                                                         *)
(* Strings are sequences of one-character strings.                         *)
(***************************************************************************)
EXTENDS Integers, Sequences, FiniteSets, TLC

\* Bounds of the model.
MaxRequests == 2        \* webhook requests served in one behaviour
NumRecipients == 2      \* recipients configured in the serving specification
MaxFlagLen == 2         \* longest flag value tried at startup
MaxSendErrors == 1      \* send calls that return an error in one behaviour

VARIABLES
    \* forwarder(): startup
    recipientIDFlag,      \* --to
    recipientPubKeyFlag,  \* --to.pubkey
    bootpc,               \* position of forwarder()
    tos, keys,            \* the split lists
    trusted,              \* contacts added by the id.Trust loop so far
    fatal,                \* which log.Fatalf ended the process, or "none"
    \* one handler goroutine per request
    hpc,                  \* position of each handler
    body,                 \* the request body each handler decoded
    image, imageErr,      \* len(image) > 0 and imageErr != nil of each handler
    status,               \* the response status written (0: none yet)
    \* the channel
    sendq,                \* alerts of the handlers blocked in the send, oldest first
    \* publisher()
    wpc,                  \* position of the publisher goroutine
    cur,                  \* its local variable alert (Nil: nil)
    ri,                   \* index of the range loop over tos
    conn,                 \* a session returned by threema.Connect is open
    \* history
    pushed,               \* the handlers that have issued their send, in that order
    log,                  \* the publisher's receive, connect, send and close events
    \* environment
    imagesEnabled,        \* Grafana's webhook channel sends an imageUrl
    \* the message composition of one handler, with its strings spelled out
    cpc,                  \* position of that handler
    posted,               \* the event as json Decode returned it
    event,                \* the handler's event, whose Title the switch rewrites
    imageError,           \* imageErr.Error(), or NoError for a nil imageErr
    icon,                 \* the handler's local variable icon
    message               \* the handler's local variable message

bootvars == <<recipientIDFlag, recipientPubKeyFlag, bootpc, tos, keys, trusted, fatal>>
hvars    == <<hpc, body, image, imageErr, status>>
wvars    == <<wpc, cur, ri, conn>>
hist     == <<pushed, log>>
cvars    == <<cpc, posted, event, imageError, icon, message>>
vars     == <<bootvars, hvars, sendq, wvars, hist, imagesEnabled, cvars>>

Requests == 1..MaxRequests

\* type alert struct: the handler that built it stands for the message text;
\* image is len(alert.image) > 0; notice is the "Failed to attach image" text.
Alert(h, img, notice) == [id |-> h, image |-> img, notice |-> notice]
Nil == [id |-> 0, image |-> FALSE, notice |-> FALSE]

\* History events: what the publisher did, for which alert, to which entry
\* of tos, with what result, and which handlers waited in the channel then.
Ev(e, a, r, ok) == [ev |-> e, id |-> a, to |-> r, ok |-> ok, waiting |-> <<>>]

-----------------------------------------------------------------------------
(* strings.Split(s, sep) for a one-character sep: the substrings between   *)
(* the separators, one more than there are separators, so a single empty   *)
(* string for the empty s.                                                 *)
RECURSIVE SplitFrom(_, _, _)
SplitFrom(s, sep, acc) ==
    IF s = <<>> THEN <<acc>>
    ELSE IF Head(s) = sep THEN <<acc>> \o SplitFrom(Tail(s), sep, <<>>)
    ELSE SplitFrom(Tail(s), sep, Append(acc, Head(s)))

Split(s, sep) == SplitFrom(s, sep, <<>>)

\* The characters flag values are made of.
FlagChars == {"a", ","}

RECURSIVE StringsUpTo(_)
StringsUpTo(n) ==
    IF n = 0 THEN {<<>>}
    ELSE LET shorter == StringsUpTo(n - 1)
         IN  shorter \cup {Append(s, c) : s \in {t \in shorter : Len(t) = n - 1}, c \in FlagChars}

FlagValues == StringsUpTo(MaxFlagLen)

\* "a,a,...,a": a flag value naming n recipients.
RECURSIVE ListFlag(_)
ListFlag(n) == IF n <= 1 THEN <<"a">> ELSE ListFlag(n - 1) \o <<",", "a">>

-----------------------------------------------------------------------------
\* An event with nothing in it, and a nil error.
NoEvent ==
    [state |-> <<>>, title |-> <<>>, message |-> <<>>, image |-> <<>>,
     link |-> <<>>, matches |-> <<>>]
NoError == <<"nil">>

\* No message is being spelled out.
ComposerIdle ==
    /\ cpc = "idle"
    /\ posted = NoEvent
    /\ event = NoEvent
    /\ imageError = NoError
    /\ icon = <<>>
    /\ message = <<>>

\* The handler and publisher state before any request is served.
HandlersInit ==
    /\ hpc = [h \in Requests |-> "new"]
    /\ body = [h \in Requests |-> [wellformed |-> FALSE, imageUrl |-> FALSE]]
    /\ image = [h \in Requests |-> FALSE]
    /\ imageErr = [h \in Requests |-> FALSE]
    /\ status = [h \in Requests |-> 0]
    /\ sendq = <<>>
    /\ cur = Nil
    /\ ri = 0
    /\ conn = FALSE
    /\ pushed = <<>>
    /\ log = <<>>

\* The process as main() enters forwarder().
InitBoot ==
    /\ recipientIDFlag \in FlagValues
    /\ recipientPubKeyFlag \in FlagValues
    /\ bootpc = "identify"
    /\ tos = <<>>
    /\ keys = <<>>
    /\ trusted = 0
    /\ fatal = "none"
    /\ wpc = "off"
    /\ imagesEnabled \in BOOLEAN
    /\ HandlersInit
    /\ ComposerIdle

\* threema.Identify: fails or returns the identity.
Identify ==
    /\ bootpc = "identify"
    /\ \E ok \in BOOLEAN :
         IF ok THEN bootpc' = "split" /\ fatal' = fatal
         ELSE bootpc' = "fatal" /\ fatal' = "identity"
    /\ UNCHANGED <<recipientIDFlag, recipientPubKeyFlag, tos, keys, trusted,
                   hvars, sendq, wvars, hist, imagesEnabled, cvars>>

SplitFlags ==
    /\ bootpc = "split"
    /\ tos' = Split(recipientIDFlag, ",")
    /\ keys' = Split(recipientPubKeyFlag, ",")
    /\ bootpc' = "check"
    /\ UNCHANGED <<recipientIDFlag, recipientPubKeyFlag, trusted, fatal,
                   hvars, sendq, wvars, hist, imagesEnabled, cvars>>

CheckRecipients ==
    /\ bootpc = "check"
    /\ IF Len(tos) = 0 THEN bootpc' = "fatal" /\ fatal' = "norecipients"
       ELSE IF Len(tos) # Len(keys) THEN bootpc' = "fatal" /\ fatal' = "mismatch"
       ELSE bootpc' = "trust" /\ fatal' = fatal
    /\ UNCHANGED <<recipientIDFlag, recipientPubKeyFlag, tos, keys, trusted,
                   hvars, sendq, wvars, hist, imagesEnabled, cvars>>

\* One iteration of the id.Trust loop: the library accepts the contact or not.
Trust ==
    /\ bootpc = "trust"
    /\ trusted < Len(tos)
    /\ \E ok \in BOOLEAN :
         IF ok THEN trusted' = trusted + 1 /\ bootpc' = bootpc /\ fatal' = fatal
         ELSE trusted' = trusted /\ bootpc' = "fatal" /\ fatal' = "trust"
    /\ UNCHANGED <<recipientIDFlag, recipientPubKeyFlag, tos, keys,
                   hvars, sendq, wvars, hist, imagesEnabled, cvars>>

\* make(chan *alert); go publisher(id, tos, alerts); http.ListenAndServe.
StartPublisher ==
    /\ bootpc = "trust"
    /\ trusted >= Len(tos)
    /\ bootpc' = "serving"
    /\ wpc' = "recv"
    /\ UNCHANGED <<recipientIDFlag, recipientPubKeyFlag, tos, keys, trusted, fatal,
                   hvars, sendq, cur, ri, conn, hist, imagesEnabled, cvars>>

NextBoot == Identify \/ SplitFlags \/ CheckRecipients \/ Trust \/ StartPublisher

SpecStartup == InitBoot /\ [][NextBoot]_vars


-----------------------------------------------------------------------------
(* The serving process: forwarder() has passed every startup check with    *)
(* NumRecipients recipients, the publisher goroutine is at its first       *)
(* receive and http.ListenAndServe accepts requests.                       *)
Serving ==
    /\ recipientIDFlag = ListFlag(NumRecipients)
    /\ recipientPubKeyFlag = ListFlag(NumRecipients)
    /\ bootpc = "serving"
    /\ tos = Split(recipientIDFlag, ",")
    /\ keys = Split(recipientPubKeyFlag, ",")
    /\ trusted = Len(tos)
    /\ fatal = "none"
    /\ wpc = "recv"
    /\ HandlersInit

\* Serving a Grafana whose webhook channel sends no imageUrl.
Init == Serving /\ imagesEnabled = FALSE /\ ComposerIdle

\* Serving a Grafana whose webhook channel sends an imageUrl or not.
InitImages == Serving /\ imagesEnabled = TRUE /\ ComposerIdle

\* The decoded request bodies: json Decode fails, or yields the event with
\* an empty or, from a Grafana that sends images, a non-empty imageUrl.
Bodies ==
    {[wellformed |-> FALSE, imageUrl |-> FALSE],
     [wellformed |-> TRUE, imageUrl |-> FALSE]}
    \cup (IF imagesEnabled THEN {[wellformed |-> TRUE, imageUrl |-> TRUE]} ELSE {})

\* What http.Get and ioutil.ReadAll leave in (len(image) > 0, imageErr != nil):
\* the whole image, an empty response, an error before any byte was read, or
\* an error after part of the body was read.
FetchOutcomes ==
    {[image |-> TRUE, err |-> FALSE], [image |-> FALSE, err |-> FALSE],
     [image |-> FALSE, err |-> TRUE], [image |-> TRUE, err |-> TRUE]}

\* Request without the return after http.Error: a malformed body goes on
\* to the channel send.
RequestNoReturn(h) ==
    /\ bootpc = "serving"
    /\ hpc[h] = "new"
    /\ \A g \in Requests : g < h => hpc[g] # "new"
    /\ \E b \in Bodies :
         /\ body' = [body EXCEPT ![h] = b]
         /\ status' = [status EXCEPT ![h] = IF b.wellformed THEN 0 ELSE 400]
         /\ hpc' = [hpc EXCEPT ![h] = "compose"]
    /\ UNCHANGED <<bootvars, image, imageErr, sendq, wvars, hist, imagesEnabled, cvars>>

(* A request arrives and its handler runs up to the channel send: it       *)
(* decodes the body (400 and return when that fails), downloads the image  *)
(* when imageUrl is not empty, and composes the message. Requests are      *)
(* numbered in the order they arrive.                                      *)
Request(h) ==
    /\ bootpc = "serving"
    /\ hpc[h] = "new"
    /\ \A g \in Requests : g < h => hpc[g] # "new"
    /\ \E b \in Bodies :
         /\ body' = [body EXCEPT ![h] = b]
         /\ IF ~b.wellformed
              THEN /\ status' = [status EXCEPT ![h] = 400]
                   /\ hpc' = [hpc EXCEPT ![h] = "done"]
                   /\ UNCHANGED <<image, imageErr>>
              ELSE /\ status' = status
                   /\ hpc' = [hpc EXCEPT ![h] = "compose"]
                   /\ IF b.imageUrl
                        THEN \E o \in FetchOutcomes :
                               /\ image' = [image EXCEPT ![h] = o.image]
                               /\ imageErr' = [imageErr EXCEPT ![h] = o.err]
                        ELSE UNCHANGED <<image, imageErr>>
    /\ UNCHANGED <<bootvars, sendq, wvars, hist, imagesEnabled, cvars>>

\* The alert the handler builds from its message and image.
Compose(h) == Alert(h, image[h], imageErr[h])

\* Push on a channel with a buffer: the handler never waits.
PushBuffered(h) ==
    /\ hpc[h] = "compose"
    /\ sendq' = Append(sendq, Compose(h))
    /\ hpc' = [hpc EXCEPT ![h] = "respond"]
    /\ pushed' = Append(pushed, h)
    /\ UNCHANGED <<bootvars, body, image, imageErr, status, wvars, log, imagesEnabled, cvars>>

(* alerts <- &alert{...} on the unbuffered channel: when the publisher is  *)
(* parked in its receive the alert is handed to it directly and both go    *)
(* on; otherwise the handler parks in the channel's queue of senders.      *)
Push(h) ==
    /\ hpc[h] = "compose"
    /\ pushed' = Append(pushed, h)
    /\ IF wpc = "parked"
         THEN /\ cur' = Compose(h)
              /\ wpc' = "connect"
              /\ hpc' = [hpc EXCEPT ![h] = "respond"]
              /\ sendq' = sendq
              /\ log' = Append(log, Ev("recv", h, 0, TRUE))
         ELSE /\ sendq' = Append(sendq, Compose(h))
              /\ hpc' = [hpc EXCEPT ![h] = "blocked"]
              /\ UNCHANGED <<wpc, cur, log>>
    /\ UNCHANGED <<bootvars, body, image, imageErr, status, ri, conn, imagesEnabled, cvars>>

\* The handler returns after the send: net/http answers 200.
Respond(h) ==
    /\ hpc[h] = "respond"
    /\ status' = [status EXCEPT ![h] = 200]
    /\ hpc' = [hpc EXCEPT ![h] = "done"]
    /\ UNCHANGED <<bootvars, body, image, imageErr, sendq, wvars, hist, imagesEnabled, cvars>>

\* Dequeue that serves the sender that came last.
DequeueLast(q) == [alert |-> q[Len(q)], rest |-> SubSeq(q, 1, Len(q) - 1)]

\* A receive on the channel with senders waiting: the sender that has waited
\* longest hands over its alert and leaves the queue.
Dequeue(q) == [alert |-> Head(q), rest |-> Tail(q)]

\* alert := <-alerts: takes the oldest blocked sender's alert, or parks.
Recv ==
    /\ wpc = "recv"
    /\ IF sendq # <<>>
         THEN /\ cur' = Dequeue(sendq).alert
              /\ sendq' = Dequeue(sendq).rest
              /\ hpc' = [hpc EXCEPT ![Dequeue(sendq).alert.id] = "respond"]
              /\ wpc' = "connect"
              /\ log' = Append(log, Ev("recv", Dequeue(sendq).alert.id, 0, TRUE))
         ELSE /\ wpc' = "parked"
              /\ UNCHANGED <<cur, sendq, hpc, log>>
    /\ UNCHANGED <<bootvars, body, image, imageErr, status, ri, conn, pushed, imagesEnabled, cvars>>

\* AfterConnectError that tries the connect again with the same alert.
AfterConnectErrorRetry == "connect"

\* AfterConnectError that returns from publisher().
AfterConnectErrorReturn == "returned"

\* Where the publisher goes when threema.Connect fails.
AfterConnectError == "recv"

\* threema.Connect: a session, or an error and continue.
Connect ==
    /\ wpc = "connect"
    /\ \E ok \in BOOLEAN :
         /\ log' = Append(log, [Ev("connect", cur.id, 0, ok) EXCEPT
                                    !.waiting = [i \in DOMAIN sendq |-> sendq[i].id]])
         /\ IF ok
              THEN /\ conn' = TRUE
                   /\ ri' = 1
                   /\ wpc' = "loop"
                   /\ cur' = cur
              ELSE /\ conn' = conn
                   /\ ri' = ri
                   /\ wpc' = AfterConnectError
                   /\ cur' = IF AfterConnectError = "recv" THEN Nil ELSE cur
    /\ UNCHANGED <<bootvars, hvars, sendq, pushed, imagesEnabled, cvars>>

\* NextRecipient that tries the same recipient again after an error.
NextRecipientRetry(i, ok) == IF ok THEN i + 1 ELSE i

\* NextRecipient that leaves the loop after an error.
NextRecipientAbort(i, ok) == IF ok THEN i + 1 ELSE Len(tos) + 1

\* NextRecipient that starts the list over after an error.
NextRecipientRestart(i, ok) == IF ok THEN i + 1 ELSE 1

\* The range index after the send to recipient i returned ok or an error.
NextRecipient(i, ok) == i + 1

\* SendKind that sends every alert as text.
SendKindText(a) == "text"

\* Which call sends alert a: conn.SendImage or conn.SendText.
SendKind(a) == IF a.image THEN "image" ELSE "text"

\* The send calls that have returned an error so far.
SendErrors == Cardinality({i \in DOMAIN log : log[i].ev \in {"text", "image"} /\ ~log[i].ok})

\* What a send call may return: success, or an error.
SendResults == IF SendErrors < MaxSendErrors THEN BOOLEAN ELSE {TRUE}

\* One iteration of the loop over tos.
Send ==
    /\ wpc = "loop"
    /\ ri <= Len(tos)
    /\ \E ok \in SendResults :
         /\ log' = Append(log, [Ev("send", cur.id, ri, ok) EXCEPT !.ev = SendKind(cur)])
         /\ ri' = NextRecipient(ri, ok)
    /\ UNCHANGED <<bootvars, hvars, sendq, wpc, cur, conn, pushed, imagesEnabled, cvars>>

\* MoreQueued that never looks at the channel.
MoreQueuedNever(q) == FALSE

\* Whether the select after the loop finds its receive case ready.
MoreQueued(q) == q # <<>>

\* Select without its default case: a blocking receive with the session open.
SelectBlocking ==
    /\ wpc = "loop"
    /\ ri > Len(tos)
    /\ IF sendq # <<>>
         THEN /\ cur' = Dequeue(sendq).alert
              /\ sendq' = Dequeue(sendq).rest
              /\ hpc' = [hpc EXCEPT ![Dequeue(sendq).alert.id] = "respond"]
              /\ ri' = 1
              /\ wpc' = "loop"
              /\ log' = Append(log, Ev("recv", Dequeue(sendq).alert.id, 0, TRUE))
         ELSE /\ wpc' = "parked"
              /\ UNCHANGED <<cur, sendq, hpc, ri, log>>
    /\ UNCHANGED <<bootvars, body, image, imageErr, status, conn, pushed, imagesEnabled, cvars>>

\* The select after the loop over tos: another alert, or nil and out of
\* the loop.
Select ==
    /\ wpc = "loop"
    /\ ri > Len(tos)
    /\ IF MoreQueued(sendq)
         THEN /\ cur' = Dequeue(sendq).alert
              /\ sendq' = Dequeue(sendq).rest
              /\ hpc' = [hpc EXCEPT ![Dequeue(sendq).alert.id] = "respond"]
              /\ ri' = 1
              /\ wpc' = "loop"
              /\ log' = Append(log, Ev("recv", Dequeue(sendq).alert.id, 0, TRUE))
         ELSE /\ cur' = Nil
              /\ wpc' = "close"
              /\ UNCHANGED <<sendq, hpc, ri, log>>
    /\ UNCHANGED <<bootvars, body, image, imageErr, status, conn, pushed, imagesEnabled, cvars>>

\* Close that goes back to the top of the loop without closing the session.
CloseSkipped ==
    /\ wpc = "close"
    /\ conn' = conn
    /\ wpc' = "recv"
    /\ log' = log
    /\ UNCHANGED <<bootvars, hvars, sendq, cur, ri, pushed, imagesEnabled, cvars>>

\* conn.Close() and back to the top of the loop.
Close ==
    /\ wpc = "close"
    /\ conn' = FALSE
    /\ wpc' = "recv"
    /\ log' = Append(log, Ev("close", 0, 0, TRUE))
    /\ UNCHANGED <<bootvars, hvars, sendq, cur, ri, pushed, imagesEnabled, cvars>>

Handler == \E h \in Requests : Request(h) \/ Push(h) \/ Respond(h)

Publisher == Recv \/ Connect \/ Send \/ Select \/ Close

Next == Handler \/ Publisher

Spec == Init /\ [][Next]_vars

(* Scheduling: the Go scheduler runs every runnable goroutine, and the     *)
(* calls into the messaging library return. Requests arrive or not.        *)
Fairness ==
    /\ WF_vars(Publisher)
    /\ \A h \in Requests : WF_vars(Push(h)) /\ WF_vars(Respond(h))

FairSpec == Spec /\ Fairness

SpecImages == InitImages /\ [][Next]_vars

-----------------------------------------------------------------------------
(* The message one handler composes, character by character. A float64     *)
(* Value is held in hundredths, so that %.2f prints it exactly.            *)

\* The state keywords of the switch and the title prefixes it looks for.
StateAlerting == <<"a", "l", "e", "r", "t", "i", "n", "g">>
StateOK == <<"o", "k">>
AlertingPrefix == <<"[", "A", "l", "e", "r", "t", "i", "n", "g", "]">>
OKPrefix == <<"[", "O", "K", "]">>

\* The number of bytes the switch cuts off a title that has the prefix.
AlertingCut == 10
OKCut == 4

\* The icon literals, code point by code point.
FireIcon == <<"U+1F525">>
ShamrockIcon == <<"U+2618", "U+FE0F">>

\* strings.HasPrefix(s, prefix)
HasPrefix(s, prefix) ==
    Len(s) >= Len(prefix) /\ SubSeq(s, 1, Len(prefix)) = prefix

\* The slice expression s[n:]
SliceFrom(s, n) == SubSeq(s, n + 1, Len(s))

\* The icon the switch on event.State picks.
IconOf(state) ==
    CASE state = StateAlerting -> FireIcon
      [] state = StateOK -> ShamrockIcon
      [] OTHER -> state

\* The title the switch on event.State leaves in event.Title.
TitleOf(state, title) ==
    CASE state = StateAlerting /\ HasPrefix(title, AlertingPrefix) -> SliceFrom(title, AlertingCut)
      [] state = StateOK /\ HasPrefix(title, OKPrefix) -> SliceFrom(title, OKCut)
      [] OTHER -> title

DigitChars == <<"0", "1", "2", "3", "4", "5", "6", "7", "8", "9">>

\* The decimal digits of a natural number.
RECURSIVE Digits(_)
Digits(n) ==
    IF n < 10 THEN <<DigitChars[n + 1]>>
    ELSE Digits(n \div 10) \o <<DigitChars[(n % 10) + 1]>>

\* fmt.Sprintf("%.2f", v) for a v of that many hundredths.
Sprintf2f(hundredths) ==
    Digits(hundredths \div 100) \o <<".">>
      \o <<DigitChars[((hundredths \div 10) % 10) + 1], DigitChars[(hundredths % 10) + 1]>>

\* fmt.Sprintf("*%s*: _%.2f_\n", item.Metric, item.Value)
MatchLine(item) ==
    <<"*">> \o item.metric \o <<"*", ":", " ", "_">> \o Sprintf2f(item.value) \o <<"_", "\n">>

\* The lines the loop over event.Matches appends, and the line after them.
RECURSIVE MatchLines(_)
MatchLines(matches) ==
    IF matches = <<>> THEN <<>>
    ELSE MatchLine(Head(matches)) \o MatchLines(Tail(matches))

MatchBlock(matches) ==
    MatchLines(matches) \o (IF Len(matches) > 0 THEN <<"\n">> ELSE <<>>)

FailedToAttach == <<"F", "a", "i", "l", "e", "d", " ", "t", "o", " ", "a", "t", "t", "a", "c", "h", " ", "i", "m", "a", "g", "e", ":", " ">>

\* The failure notice, when imageErr is not nil.
ImageNotice(err) ==
    IF err # NoError THEN FailedToAttach \o err \o <<"\n", "\n">> ELSE <<>>

\* The header: "*" + icon + " " + event.Title + "*\n\n"
Header(ic, title) == <<"*">> \o ic \o <<" ">> \o title \o <<"*", "\n", "\n">>

\* The message the handler builds from the icon, the event and imageErr.
MessageOf(ic, ev, err) ==
    Header(ic, ev.title)
      \o ImageNotice(err)
      \o ev.message \o <<"\n", "\n">>
      \o MatchBlock(ev.matches)
      \o ev.link

\* The events Grafana posts: sample titles, texts, matches and links.
Titles ==
    {<<"[", "A", "l", "e", "r", "t", "i", "n", "g", "]", " ", "C", "P", "U", " ", "h", "i", "g", "h">>,
     <<"[", "O", "K", "]", " ", "d", "i", "s", "k", " ", "s", "p", "a", "c", "e">>,
     <<"C", "P", "U", " ", "h", "i", "g", "h">>,
     <<"[", "A", "l", "e", "r", "t", "i", "n", "g", "]">>,
     <<"[", "A", "l", "e", "r", "t", "i", "n", "g", "]", " ", "[", "A", "l", "e", "r", "t", "i", "n", "g", "]", " ", "x">>,
     <<"[", "O", "K", "]", "[", "O", "K", "]">>,
     <<"[", "A", "l", "e", "r", "t", "i", "n", "g", "]", "x">>}

States == {StateAlerting, StateOK, <<"p", "a", "u", "s", "e", "d">>}

Texts == {<<>>, <<"R", "e", "c", "o", "v", "e", "r", "e", "d">>}

Links == {<<>>, <<"h", "t", "t", "p", ":", "/", "/", "g", "/", "d", "/", "1">>}

MatchLists ==
    {<<>>,
     <<[metric |-> <<"c", "p", "u">>, value |-> 50]>>,
     <<[metric |-> <<"c", "p", "u">>, value |-> 9150], [metric |-> <<"m", "e", "m">>, value |-> 7]>>}

ImageUrls == {<<>>, <<"h", "t", "t", "p", ":", "/", "/", "g", "/", "i", ".", "p", "n", "g">>}

ImageErrors == {NoError, <<"u", "n", "e", "x", "p", "e", "c", "t", "e", "d", " ", "E", "O", "F">>}

Events ==
    [state : States, title : Titles, message : Texts, image : ImageUrls,
     link : Links, matches : MatchLists]

\* A handler has decoded an event and fetched its image, if it has one.
InitCompose ==
    /\ Serving
    /\ imagesEnabled = TRUE
    /\ cpc = "decoded"
    /\ posted \in Events
    /\ event = posted
    /\ imageError \in ImageErrors
    /\ posted.image = <<>> => imageError = NoError
    /\ icon = <<>>
    /\ message = <<>>

\* The switch on event.State: sets icon and cuts the prefix off the title.
SwitchState ==
    /\ cpc = "decoded"
    /\ icon' = IconOf(event.state)
    /\ event' = [event EXCEPT !.title = TitleOf(event.state, event.title)]
    /\ cpc' = "switched"
    /\ UNCHANGED <<bootvars, hvars, sendq, wvars, hist, imagesEnabled, posted, imageError, message>>

\* The concatenations that build message.
BuildMessage ==
    /\ cpc = "switched"
    /\ message' = MessageOf(icon, event, imageError)
    /\ cpc' = "composed"
    /\ UNCHANGED <<bootvars, hvars, sendq, wvars, hist, imagesEnabled, posted, imageError, event, icon>>

NextCompose == SwitchState \/ BuildMessage

SpecCompose == InitCompose /\ [][NextCompose]_vars


-----------------------------------------------------------------------------
\* Reading the history.
IsSend(e) == e.ev \in {"text", "image"}
At(e, a) == {i \in DOMAIN log : log[i].ev = e /\ log[i].id = a}
PushesOf(a) == {i \in DOMAIN pushed : pushed[i] = a}
SendsOf(a) == {i \in DOMAIN log : IsSend(log[i]) /\ log[i].id = a}
SendsTo(a, r) == {i \in SendsOf(a) : log[i].to = r}
InQueue(a) == \E i \in DOMAIN sendq : sendq[i].id = a
Recipients == 1..Len(tos)
\* The step appends exactly this kind of event to the history.
Logs(e) == Len(log') = Len(log) + 1 /\ log'[Len(log')].ev = e

-----------------------------------------------------------------------------
-----------------------------------------------------------------------------
(* C2: an alert is pushed iff the body parsed. A request whose body does   *)
(* not parse is answered 400 in the step that decodes it, which changes    *)
(* neither the channel nor the publisher nor the history, and its alert    *)
(* is never pushed; a request answered 200 had a well-formed body and      *)
(* pushed exactly one alert; no request pushes twice.                      *)
C2_EnqueueIffParsed ==
    /\ [](\A h \in Requests :
            /\ Cardinality(PushesOf(h)) <= 1
            /\ PushesOf(h) # {} => body[h].wellformed
            /\ status[h] \in {0, 200, 400}
            /\ status[h] = 400 <=> (hpc[h] # "new" /\ ~body[h].wellformed)
            /\ status[h] = 400 => PushesOf(h) = {} /\ ~InQueue(h) /\ hpc[h] = "done"
            /\ status[h] = 200 => body[h].wellformed /\ Cardinality(PushesOf(h)) = 1
            /\ (hpc[h] = "done" /\ body[h].wellformed) => status[h] = 200)
    /\ [][\A h \in Requests :
            (hpc[h] = "new" /\ hpc'[h] # "new" /\ ~body'[h].wellformed) =>
                /\ status'[h] = 400
                /\ UNCHANGED <<sendq, wvars, pushed, log>>
         ]_vars

\* C2 witness: one request was refused with 400, another pushed and got 200.
C2_Witness ==
    \E g, h \in Requests :
        /\ status[g] = 400 /\ PushesOf(g) = {}
        /\ status[h] = 200 /\ PushesOf(h) # {}

-----------------------------------------------------------------------------
(* C3: FIFO delivery. If alert a was pushed before alert b, every send     *)
(* attempt of a comes before every send attempt of b.                      *)
C3_FifoDelivery ==
    \A a, b \in Requests :
        (\E i \in PushesOf(a), j \in PushesOf(b) : i < j) =>
            \A k \in SendsOf(a), l \in SendsOf(b) : k < l

(* C3 witness: the request that arrived second pushed first, the first    *)
(* one was waiting in the channel when the connect for the second was      *)
(* made, and both alerts were sent to every recipient.                     *)
C3_Witness ==
    /\ pushed = <<2, 1>>
    /\ \E c \in At("connect", 2) : log[c].waiting = <<1>>
    /\ \A r \in Recipients : SendsTo(1, r) # {} /\ SendsTo(2, r) # {}

-----------------------------------------------------------------------------
(* C4: no alert is delivered twice. Each alert is taken from the channel   *)
(* at most once, and exactly once when its handler got past the send; an   *)
(* alert that was taken is not on the channel again; at most one connect   *)
(* is made for an alert; and at most one send attempt is made per alert    *)
(* and recipient-list entry, whether attempts failed or not.               *)
C4_NoDoubleDelivery ==
    \A a \in Requests :
        /\ Cardinality(At("recv", a)) <= 1
        /\ hpc[a] \in {"respond", "done"} /\ body[a].wellformed =>
               Cardinality(At("recv", a)) = 1
        /\ At("recv", a) # {} => ~InQueue(a)
        /\ Cardinality({i \in DOMAIN sendq : sendq[i].id = a}) <= 1
        /\ Cardinality(At("connect", a)) <= 1
        /\ \A r \in Recipients : Cardinality(SendsTo(a, r)) <= 1

(* C4 witness: the connect for one alert failed, a send of another alert   *)
(* failed, and the publisher has gone back to waiting.                     *)
C4_Witness ==
    /\ wpc = "parked"
    /\ \E i \in DOMAIN log : log[i].ev = "connect" /\ ~log[i].ok
    /\ \E i \in DOMAIN log : IsSend(log[i]) /\ ~log[i].ok

-----------------------------------------------------------------------------
(* C5: partial failure. After a send of alert a to recipient r returned    *)
(* an error, with recipients left in the list, the publisher's next event  *)
(* is the send of a to recipient r + 1, or it is about to make that send   *)
(* on the same open session; the failing step leaves the session open and  *)
(* the channel alone, and a is not on the channel afterwards.              *)
C5_PartialFailure ==
    /\ [](\A i \in DOMAIN log :
            LET e == log[i] IN
            (IsSend(e) /\ ~e.ok) =>
                /\ ~InQueue(e.id)
                /\ e.to < Len(tos) =>
                     IF i < Len(log)
                       THEN LET n == log[i + 1]
                            IN  IsSend(n) /\ n.id = e.id /\ n.to = e.to + 1
                       ELSE wpc = "loop" /\ conn /\ cur.id = e.id /\ ri = e.to + 1)
    /\ [][(wpc = "loop" /\ ri <= Len(tos) /\ log' # log /\ ~log'[Len(log')].ok
             /\ IsSend(log'[Len(log')])) =>
            /\ conn /\ conn'
            /\ UNCHANGED <<sendq, cur, wpc>>
            /\ ri' = ri + 1
         ]_vars

(* C5 witness: the send to the first recipient failed and the send of the  *)
(* same alert to the second recipient was made and succeeded.              *)
C5_Witness ==
    \E i \in DOMAIN log :
        /\ i < Len(log)
        /\ IsSend(log[i]) /\ ~log[i].ok /\ log[i].to = 1
        /\ IsSend(log[i + 1]) /\ log[i + 1].ok
        /\ log[i + 1].id = log[i].id /\ log[i + 1].to = 2

-----------------------------------------------------------------------------
\* The history holds a failed connect made for alert a.
ConnectFailedFor(a) == \E i \in At("connect", a) : ~log[i].ok

(* C6: a failed connect drops exactly the alert that woke the publisher.   *)
(* The failing step leaves the channel and the handlers alone, leaves no   *)
(* session open and takes the publisher back to its receive without the    *)
(* alert; no send is ever attempted for that alert, no second connect is   *)
(* made for it and it is not on the channel again; the publisher's next    *)
(* event after the failure is a receive; and an alert the publisher took   *)
(* and no longer holds was attempted to every recipient unless its own     *)
(* connect failed.                                                         *)
C6_ConnectFailureDropsOne ==
    /\ [][(Logs("connect") /\ ~log'[Len(log')].ok) =>
            /\ wpc = "connect" /\ wpc' = "recv"
            /\ cur # Nil /\ cur' = Nil
            /\ ~conn /\ ~conn'
            /\ UNCHANGED <<sendq, hpc, status>>
         ]_vars
    /\ [](\A a \in Requests :
            /\ ConnectFailedFor(a) =>
                 /\ SendsOf(a) = {}
                 /\ Cardinality(At("connect", a)) = 1
                 /\ Cardinality(At("recv", a)) = 1
                 /\ ~InQueue(a) /\ cur.id # a
            /\ (At("recv", a) # {} /\ cur.id # a /\ ~ConnectFailedFor(a)) =>
                 \A r \in Recipients : SendsTo(a, r) # {})
    /\ [](\A i \in DOMAIN log :
            (log[i].ev = "connect" /\ ~log[i].ok) =>
                IF i < Len(log) THEN log[i + 1].ev = "recv"
                ELSE wpc \in {"recv", "parked"} /\ ~conn)

(* C6 witness: connect failed for one alert while another handler waited   *)
(* in the channel; that other alert is still there and the publisher is    *)
(* back at its receive with no session.                                    *)
C6_Witness ==
    /\ wpc = "recv" /\ ~conn /\ cur = Nil
    /\ \E a, b \in Requests : a # b /\ ConnectFailedFor(a) /\ InQueue(b)
    /\ log[Len(log)].ev = "connect"

-----------------------------------------------------------------------------
\* Alert b had been pushed, and not yet taken, when the connect logged at
\* position c returned.
PendingAt(b, c) == \E i \in DOMAIN log[c].waiting : log[c].waiting[i] = b

(* C7: batching. If a connect succeeds while another alert b is already    *)
(* pushed and waiting, then every later close or connect in the history    *)
(* comes only after the alert the connect was made for and b have each     *)
(* been attempted to every recipient, after that connect.                  *)
C7_Batching ==
    \A c \in DOMAIN log :
        (log[c].ev = "connect" /\ log[c].ok) =>
            \A b \in Requests :
                PendingAt(b, c) =>
                    \A k \in DOMAIN log :
                        (k > c /\ log[k].ev \in {"close", "connect"}) =>
                            \A r \in Recipients :
                                /\ \E s \in SendsTo(log[c].id, r) : c < s /\ s < k
                                /\ \E s \in SendsTo(b, r) : c < s /\ s < k

(* C7 witness: a second alert was pushed before the connect for the first  *)
(* succeeded, and the session has been closed since.                       *)
C7_Witness ==
    \E c \in DOMAIN log, b \in Requests :
        /\ log[c].ev = "connect" /\ log[c].ok
        /\ PendingAt(b, c)
        /\ log[Len(log)].ev = "close"

-----------------------------------------------------------------------------
(* C8: delivery failures never reach the caller. The handler writes only   *)
(* 400, for a body that did not parse, or 200; and under fair scheduling   *)
(* every request with a well-formed body is eventually answered 200,       *)
(* whatever connect and the sends return.                                  *)
C8_CallerAlwaysAnswered ==
    /\ [](\A h \in Requests :
            /\ status[h] \in {0, 200, 400}
            /\ status[h] = 400 => ~body[h].wellformed)
    /\ \A h \in Requests :
            (hpc[h] # "new" /\ body[h].wellformed) ~> (status[h] = 200)

(* C8 witness: a request was answered 200 although the connect made for    *)
(* its alert failed, and another although a send of its alert failed.      *)
C8_Witness ==
    \E g, h \in Requests :
        /\ status[g] = 200 /\ ConnectFailedFor(g)
        /\ status[h] = 200 /\ \E i \in SendsOf(h) : ~log[i].ok

-----------------------------------------------------------------------------
(* C9 as stated: with an empty recipient-id flag the split list is empty   *)
(* and the empty-list check ends the process, so the trust loop and the    *)
(* publisher are never reached; unequal list lengths end the process; and  *)
(* when the publisher runs the lists have equal, non-zero length.          *)
C9_EmptyRecipientsFatal ==
    /\ (recipientIDFlag = <<>> /\ bootpc \notin {"identify", "split"}) =>
            /\ Len(tos) = 0
            /\ bootpc \in {"check", "fatal"}
            /\ bootpc = "fatal" => fatal \in {"identity", "norecipients"}
    /\ (bootpc \in {"trust", "serving"}) => Len(tos) = Len(keys)
    /\ wpc # "off" => (bootpc = "serving" /\ Len(tos) = Len(keys) /\ Len(tos) > 0)

-----------------------------------------------------------------------------
\* The publisher has been through all of tos and is at the select.
AtSelect == wpc = "loop" /\ ri > Len(tos)

(* C10: batch continuation and close. The publisher's step after a pass    *)
(* over the recipients never waits: with an alert waiting it takes the     *)
(* oldest one and goes through the recipients again on the same session,   *)
(* with no connect; with none waiting it sets its alert to nil and goes    *)
(* to close. The session is closed only from there, and the publisher      *)
(* waits in its blocking receive only without a session.                   *)
C10_ContinueOrClose ==
    /\ [][(AtSelect /\ wvars' # wvars) =>
            IF sendq # <<>>
              THEN /\ cur' = Head(sendq) /\ sendq' = Tail(sendq)
                   /\ conn /\ conn' /\ wpc' = "loop" /\ ri' = 1
                   /\ Logs("recv")
              ELSE /\ cur' = Nil /\ wpc' = "close"
                   /\ conn /\ conn'
                   /\ UNCHANGED <<sendq, log>>
         ]_vars
    /\ [][(wpc # "close" /\ wpc' = "close") => (AtSelect /\ sendq = <<>>)]_vars
    /\ [][(conn /\ ~conn') => (wpc = "close" /\ wpc' = "recv" /\ cur = Nil)]_vars
    /\ [](wpc = "parked" => ~conn)

(* C10 witness: the publisher took a second alert at the select, on the    *)
(* session opened for the first, and later found the channel empty and     *)
(* closed the session.                                                     *)
C10_Witness ==
    /\ wpc = "recv" /\ ~conn
    /\ \E i \in DOMAIN log :
         /\ i > 1 /\ log[i].ev = "recv" /\ IsSend(log[i - 1])
         /\ log[Len(log)].ev = "close"

-----------------------------------------------------------------------------
\* The alerts that have been put on the channel and not yet been dealt with.
Enqueued == {sendq[i] : i \in DOMAIN sendq} \cup (IF cur # Nil THEN {cur} ELSE {})

(* C11 as stated: an alert on its way to the publisher carries an image    *)
(* exactly when its request had an imageUrl and the download succeeded.    *)
(* With an empty imageUrl it has no image and no failure notice; when the  *)
(* download failed, opening the URL or reading the body, it has no image   *)
(* and has the failure notice, and its request is answered 200.            *)
C11_ImageIffFetched ==
    /\ \A a \in Enqueued :
         /\ a.image => (body[a.id].imageUrl /\ ~imageErr[a.id])
         /\ (body[a.id].imageUrl /\ image[a.id] /\ ~imageErr[a.id]) => a.image
         /\ ~body[a.id].imageUrl => (~a.image /\ ~a.notice)
         /\ imageErr[a.id] => (~a.image /\ a.notice)
    /\ \A h \in Requests :
         (hpc[h] = "done" /\ body[h].wellformed) => status[h] = 200

(* C12: image or text. Every send call is made for the alert the publisher *)
(* holds, which is the alert its handler composed, image and message       *)
(* unchanged: conn.SendImage when the alert has image bytes, conn.SendText *)
(* when it has none, one call per attempt.                                 *)
C12_ImageOrText ==
    /\ [](\A i \in DOMAIN log : IsSend(log[i]) =>
             log[i].ev = (IF image[log[i].id] THEN "image" ELSE "text"))
    /\ [][(wpc = "loop" /\ ri <= Len(tos) /\ wvars' # wvars) =>
            /\ cur = Compose(cur.id)
            /\ cur' = cur
            /\ Len(log') = Len(log) + 1
            /\ log'[Len(log')].id = cur.id
            /\ log'[Len(log')].to = ri
            /\ log'[Len(log')].ev = (IF cur.image THEN "image" ELSE "text")
         ]_vars

(* C12 witness: an alert with an image has gone out by an image send and   *)
(* an alert without one by a text send.                                    *)
C12_Witness ==
    \E i, j \in DOMAIN log :
        /\ log[i].ev = "image" /\ image[log[i].id]
        /\ log[j].ev = "text" /\ ~image[log[j].id]

-----------------------------------------------------------------------------
\* The alert has been received and the publisher is through with it.
Finished(a) == At("recv", a) # {} /\ cur.id # a

(* C13: recipient order. The send attempts of an alert go to the entries   *)
(* of the recipient list in list order, one after the other with nothing   *)
(* in between: the attempt for entry 1 follows the receive or the connect  *)
(* of the alert, the attempt for entry r + 1 follows the attempt for entry *)
(* r whether that one failed or not; and an alert the publisher is through *)
(* with, whose connect did not fail, has had one attempt per entry.        *)
C13_RecipientOrder ==
    /\ \A a \in Requests : \A i \in SendsOf(a) :
         /\ log[i].to \in Recipients
         /\ IF log[i].to = 1
              THEN log[i - 1].ev \in {"recv", "connect"} /\ log[i - 1].id = a
              ELSE /\ IsSend(log[i - 1]) /\ log[i - 1].id = a
                   /\ log[i - 1].to = log[i].to - 1
    /\ \A a \in Requests :
         (Finished(a) /\ ~ConnectFailedFor(a)) =>
             \A r \in Recipients : Cardinality(SendsTo(a, r)) = 1

(* C13 witness: the publisher is through with an alert whose attempt for   *)
(* an entry before the last one failed.                                    *)
C13_Witness ==
    \E a \in Requests :
        /\ Finished(a)
        /\ \E i \in SendsOf(a) : ~log[i].ok /\ log[i].to < Len(tos)
        /\ \A r \in Recipients : SendsTo(a, r) # {}

-----------------------------------------------------------------------------
\* The sessions opened and closed so far, as places in the history.
Opens == {i \in DOMAIN log : log[i].ev = "connect" /\ log[i].ok}
Closes == {i \in DOMAIN log : log[i].ev = "close"}

(* C16: session lifecycle. At most one session is open: the sessions       *)
(* opened are one more than the sessions closed while the publisher is in  *)
(* the loop over its alerts or about to close, and as many otherwise.      *)
(* Every send attempt is made on the session of the last successful        *)
(* connect, with no close since. A close ends an open session, so every    *)
(* session is closed at most once; and the publisher is at its blocking    *)
(* receive only with no session open.                                      *)
C16_SessionLifecycle ==
    /\ [](conn <=> wpc \in {"loop", "close"})
    /\ [](Cardinality(Opens) - Cardinality(Closes) = (IF conn THEN 1 ELSE 0))
    /\ [](\A i \in DOMAIN log : IsSend(log[i]) =>
             \E o \in Opens : o < i /\ \A c \in Closes : c < o \/ i < c)
    /\ [](\A c \in Closes :
             \E o \in Opens : o < c /\ \A d \in Closes : d < o \/ c <= d)
    /\ [][(Logs("text") \/ Logs("image")) => (conn /\ conn')]_vars
    /\ [][Logs("close") => (conn /\ ~conn')]_vars
    /\ [][(Logs("connect") /\ log'[Len(log')].ok) => (~conn /\ conn')]_vars
    /\ [](wpc \in {"recv", "parked"} => ~conn)

(* C16 witness: two sessions have been opened, used for a send and closed, *)
(* and the publisher waits for the next alert.                             *)
C16_Witness ==
    /\ wpc = "parked"
    /\ Cardinality(Closes) = 2
    /\ \A c \in Closes : IsSend(log[c - 1])

-----------------------------------------------------------------------------
(* C17: rendezvous hand-off. The channel holds no alert: every alert that  *)
(* was pushed and not yet received is in the hands of its handler, parked  *)
(* in the send with no response written. A handler gets past its send only *)
(* in the step in which the publisher receives its alert, at the blocking  *)
(* receive or at the select; so a request answered 200 has had its alert   *)
(* received.                                                               *)
C17_Rendezvous ==
    /\ [](\A h \in Requests :
            /\ InQueue(h) <=> hpc[h] = "blocked"
            /\ InQueue(h) => status[h] = 0
            /\ (PushesOf(h) # {} /\ At("recv", h) = {}) => hpc[h] = "blocked"
            /\ status[h] = 200 => At("recv", h) # {})
    /\ [][\A h \in Requests :
            (hpc[h] \in {"compose", "blocked"} /\ hpc'[h] = "respond") =>
                /\ Logs("recv")
                /\ log'[Len(log')].id = h
                /\ cur' = Compose(h)
                /\ ~InQueue(h)'
         ]_vars

(* C17 witness: one request was answered 200 after the publisher took its  *)
(* alert at the blocking receive, another after the publisher took its     *)
(* alert at the select, where its handler had been parked.                 *)
C17_Witness ==
    \E g, h \in Requests :
        /\ status[g] = 200 /\ status[h] = 200
        /\ \E i \in At("recv", g) : i = 1 \/ ~IsSend(log[i - 1])
        /\ \E i \in At("recv", h) : i > 1 /\ IsSend(log[i - 1])

-----------------------------------------------------------------------------
\* The publisher has made a send attempt of alert a for every recipient.
SentToAll(a) == \A r \in Recipients : SendsTo(a, r) # {}

(* C18: worker progress. The publisher never leaves its loop, and it has a *)
(* step to take wherever it is but parked in the blocking receive. Under   *)
(* fair scheduling, with connect, send and close returning, every alert    *)
(* that was pushed is eventually dropped by a failed connect or has had a  *)
(* send attempt for every recipient, every session that is open is         *)
(* eventually closed, and the publisher always gets back to its blocking   *)
(* receive.                                                                *)
C18_WorkerProgress ==
    /\ [](wpc \in {"recv", "parked", "connect", "loop", "close"})
    /\ [](wpc # "parked" => ENABLED Publisher)
    /\ \A h \in Requests :
         (PushesOf(h) # {}) ~> (ConnectFailedFor(h) \/ SentToAll(h))
    /\ conn ~> ~conn
    /\ (wpc # "parked") ~> (wpc = "parked" /\ ~conn)

(* C18 witness: one alert was dropped by a failed connect, another has had *)
(* its send attempts for every recipient, its session is closed and the    *)
(* publisher is parked in its receive.                                     *)
C18_Witness ==
    /\ wpc = "parked" /\ ~conn
    /\ log # <<>> /\ log[Len(log)].ev = "close"
    /\ \E a, b \in Requests :
         /\ ConnectFailedFor(a)
         /\ ~ConnectFailedFor(b) /\ SentToAll(b)

-----------------------------------------------------------------------------
\* The prefix C14 says is cut off the title, with its space, and the title
\* it says is left.
StatedPrefix(state) ==
    CASE state = StateAlerting -> AlertingPrefix \o <<" ">>
      [] state = StateOK -> OKPrefix \o <<" ">>
      [] OTHER -> <<>>

StatedTitle(state, title) ==
    IF HasPrefix(title, StatedPrefix(state))
      THEN SliceFrom(title, Len(StatedPrefix(state)))
      ELSE title

(* C14 as stated: the header of the composed message holds the title with  *)
(* the prefix "[Alerting] " (state alerting) or "[OK] " (state ok), space  *)
(* included, cut off once when the title begins with it, and the title as  *)
(* posted when it does not.                                                *)
C14_PrefixStrippedOnce ==
    cpc = "composed" =>
        HasPrefix(message, Header(icon, StatedTitle(posted.state, posted.title)))

\* The event of C15's example and the text C15 says is sent for it.
ExampleEvent ==
    [state |-> StateOK, title |-> <<"[", "O", "K", "]", " ", "d", "i", "s", "k", " ", "s", "p", "a", "c", "e">>,
     message |-> <<"R", "e", "c", "o", "v", "e", "r", "e", "d">>, image |-> <<>>, link |-> <<>>, matches |-> <<>>]

ExampleText ==
    <<"*", "U+2618", " ">> \o <<"d", "i", "s", "k", " ", "s", "p", "a", "c", "e">> \o <<"*", "\n", "\n">>
      \o <<"R", "e", "c", "o", "v", "e", "r", "e", "d">> \o <<"\n", "\n">>

(* C15 as stated: for an event with an empty imageUrl the message is the   *)
(* header of icon and stripped title, a blank line, the body text, a blank *)
(* line, the lines of the metric matches and the link; and the event with  *)
(* state "ok", title "[OK] disk space", message "Recovered", no matches    *)
(* and no link gives the shamrock, a space, "disk space" between stars,    *)
(* a blank line, "Recovered" and a blank line.                             *)
C15_MessageLayout ==
    (cpc = "composed" /\ posted.image = <<>>) =>
        /\ message = Header(icon, StatedTitle(posted.state, posted.title))
                       \o posted.message \o <<"\n", "\n">>
                       \o MatchBlock(posted.matches)
                       \o posted.link
        /\ posted = ExampleEvent => message = ExampleText

=============================================================================
